---- MODULE Spec2Model ----
(***************************************************************************)
(* merge-config: the deep-merge engine of lib/merge.js, modelled on a heap *)
(* of JavaScript objects (object identity and aliasing are visible), and   *)
(* the Configuration store of lib/configuration.js, whose merges are done  *)
(* by lodash's _.merge.                                                    *)
(*                                                                         *)
(* Strings that the code splits, joins or reformats (composed keys,        *)
(* environment variable names, file names) are sequences of one-character  *)
(* strings; property names are therefore such sequences too.               *)
(***************************************************************************)
EXTENDS Integers, Sequences, FiniteSets, TLC

VARIABLES
  heap,        \* engine: address -> JavaScript object (own properties)
  pre,         \* engine: the heap when the last merge() call was entered
  call,        \* engine: the last merge() call: arguments and outcome
  delimiter,   \* store: the delimiter chosen at construction
  lodashMajor, \* store: the major version of the lodash that is installed
  config,      \* store: the configuration object
  entry,       \* store: config when the last operation was entered
  expected,    \* store: the data model's left fold of the fragments merged so far
  clean,       \* store: no operation has raised an error so far
  last,        \* store: the last operation: arguments and outcome
  nops         \* store: the number of operations called so far

engineVars == <<heap, pre, call>>
storeVars == <<delimiter, lodashMajor, config, entry, expected, clean, last, nops>>
vars == <<engineVars, storeVars>>

(***************************************************************************)
(* JavaScript values as trees (structural view).                           *)
(***************************************************************************)
NoProps == <<>>

Scalar(s) == [t |-> "scalar", s |-> s, m |-> NoProps]
Null == [t |-> "null", s |-> "", m |-> NoProps]
Undefined == [t |-> "undefined", s |-> "", m |-> NoProps]
Obj(m) == [t |-> "object", s |-> "", m |-> m]

\* The property name of array position i (1-based): "0", "1", ...
IndexKey(i) == << <<"0", "1", "2", "3", "4", "5">>[i] >>

Arr(elems) ==
  [t |-> "array", s |-> "",
   m |-> [k \in {IndexKey(i) : i \in 1..Len(elems)} |->
            elems[CHOOSE i \in 1..Len(elems) : IndexKey(i) = k]]]

\* typeof v === 'object' && v !== null  (arrays included)
IsObjectLike(v) == v.t \in {"object", "array"}

(***************************************************************************)
(* Heap values: a property holds a scalar, null, or a reference.           *)
(* An address is the path at which the object was created.                 *)
(***************************************************************************)
NoAddr == <<>>

HScalar(s) == [t |-> "scalar", s |-> s, r |-> NoAddr]
HNull == [t |-> "null", s |-> "", r |-> NoAddr]
HUndefined == [t |-> "undefined", s |-> "", r |-> NoAddr]
Ref(a) == [t |-> "ref", s |-> "", r |-> a]

RECURSIVE ObjPaths(_, _)
\* The addresses of the objects of a tree allocated at address p.
ObjPaths(v, p) ==
  IF ~IsObjectLike(v) THEN {}
  ELSE {p} \cup UNION {ObjPaths(v.m[k], Append(p, k)) : k \in DOMAIN v.m}

RECURSIVE SubtreeAt(_, _)
SubtreeAt(v, path) ==
  IF path = <<>> THEN v ELSE SubtreeAt(v.m[Head(path)], Tail(path))

\* One object of the heap: its kind and its own properties.
HeapObject(v, p) ==
  [t |-> v.t,
   m |-> [k \in DOMAIN v.m |->
            IF IsObjectLike(v.m[k]) THEN Ref(Append(p, k))
            ELSE [t |-> v.m[k].t, s |-> v.m[k].s, r |-> NoAddr]]]

\* The heap holding the given root objects (roots: name -> tree).
HeapOf(roots) ==
  LET addrs == UNION {ObjPaths(roots[n], <<n>>) : n \in DOMAIN roots}
  IN [a \in addrs |-> HeapObject(SubtreeAt(roots[Head(a)], Tail(a)), a)]

RECURSIVE TreeOf(_, _)
\* The structural value of a heap value.
TreeOf(h, v) ==
  IF v.t = "ref"
  THEN [t |-> h[v.r].t, s |-> "",
        m |-> [k \in DOMAIN h[v.r].m |-> TreeOf(h, h[v.r].m[k])]]
  ELSE [t |-> v.t, s |-> v.s, m |-> NoProps]

(***************************************************************************)
(* lib/merge.js                                                            *)
(***************************************************************************)
\* target[name]: undefined when the property is absent.
Prop(h, a, name) ==
  IF name \in DOMAIN h[a].m THEN h[a].m[name] ELSE HUndefined

\* x && typeof x === 'object'
IsObjectRef(v) == v.t = "ref"

RECURSIVE mergeObjects(_, _, _), mergeNames(_, _, _, _),
          mergeNames_plainObjects(_, _, _, _)
\* As mergeNames, but recursing only into two objects that are not arrays.
mergeNames_plainObjects(h, target, source, names) ==
  IF names = {} THEN h
  ELSE LET name == CHOOSE n \in names : TRUE
           tv == Prop(h, target, name)
           sv == Prop(h, source, name)
           h2 == IF /\ IsObjectRef(tv) /\ IsObjectRef(sv)
                    /\ h[tv.r].t = "object" /\ h[sv.r].t = "object"
                 THEN mergeObjects(h, tv.r, sv.r)
                 ELSE [h EXCEPT ![target].m = (name :> sv) @@ @]
       IN mergeNames_plainObjects(h2, target, source, names \ {name})

\* The for..in loop of mergeObjects over the remaining names.
mergeNames(h, target, source, names) ==
  IF names = {} THEN h
  ELSE LET name == CHOOSE n \in names : TRUE
           tv == Prop(h, target, name)
           sv == Prop(h, source, name)
           h2 == IF IsObjectRef(tv) /\ IsObjectRef(sv)
                 THEN mergeObjects(h, tv.r, sv.r)
                 ELSE [h EXCEPT ![target].m = (name :> sv) @@ @]
       IN mergeNames(h2, target, source, names \ {name})

mergeObjects(h, target, source) ==
  mergeNames(h, target, source, DOMAIN h[source].m)

\* arg === null || typeof arg !== 'object'
InvalidParam(v) == ~IsObjectRef(v)

RECURSIVE mergeSources_skipInvalid(_, _, _, _)
\* As mergeSources, but a source that is not an object is passed over.
mergeSources_skipInvalid(h, target, sources, i) ==
  IF i > Len(sources) THEN [h |-> h, err |-> "none", ret |-> target]
  ELSE IF InvalidParam(sources[i])
       THEN mergeSources_skipInvalid(h, target, sources, i + 1)
       ELSE mergeSources_skipInvalid(mergeObjects(h, target.r, sources[i].r),
                                     target, sources, i + 1)

RECURSIVE mergeSources(_, _, _, _)
\* The loop of merge over sources[i..]: the heap reached and the outcome.
mergeSources(h, target, sources, i) ==
  IF i > Len(sources) THEN [h |-> h, err |-> "none", ret |-> target]
  ELSE IF InvalidParam(sources[i])
       THEN [h |-> h, err |-> "MERGE_INVALID", ret |-> HUndefined]
       ELSE mergeSources(mergeObjects(h, target.r, sources[i].r),
                         target, sources, i + 1)

merge(h, target, sources) ==
  IF InvalidParam(target)
  THEN [h |-> h, err |-> "MERGE_INVALID", ret |-> HUndefined]
  ELSE mergeSources(h, target, sources, 1)

(***************************************************************************)
(* The engine's callers: objects T (a target), S1 and S2 (sources), and    *)
(* the values a caller can pass that are not objects.                      *)
(***************************************************************************)
MaxSources == 2

k == <<"k">>
j == <<"j">>
RootT == <<"T">>
RootS1 == <<"S", "1">>
RootS2 == <<"S", "2">>

TargetPool ==
  { Obj(<<>>),
    Obj(k :> Obj(j :> Scalar("x"))),
    Obj(k :> Arr(<<Scalar("x"), Scalar("y")>>)),
    Obj(k :> Obj(j :> Obj(k :> Scalar("x"))) @@ j :> Null) }

SourcePool ==
  { Obj(k :> Obj(k :> Scalar("y"))),
    Obj(k :> Arr(<<Scalar("y")>>)),
    Obj(k :> Null @@ j :> Obj(k :> Scalar("x"))),
    Obj(k :> Obj(j :> Obj(j :> Scalar("y"))) @@ j :> Scalar("y")) }

TargetArgs == {Ref(<<RootT>>), HNull, HUndefined, HScalar("x")}
SourceArgs == {Ref(<<RootS1>>), Ref(<<RootS2>>), HNull, HUndefined, HScalar("x")}

SourceLists == UNION {[1..n -> SourceArgs] : n \in 0..MaxSources}

NoCall == [target |-> HUndefined, sources |-> <<>>, err |-> "none", ret |-> HUndefined]

EngineInit ==
  /\ \E t \in TargetPool, s1 \in SourcePool, s2 \in SourcePool :
       heap = HeapOf(RootT :> t @@ RootS1 :> s1 @@ RootS2 :> s2)
  /\ pre = heap
  /\ call = NoCall

\* A caller runs merge(target, sources...) to completion.
CallMerge ==
  /\ call = NoCall
  /\ \E target \in TargetArgs, sources \in SourceLists :
       LET out == merge(heap, target, sources)
       IN /\ heap' = out.h
          /\ pre' = heap
          /\ call' = [target |-> target, sources |-> sources,
                      err |-> out.err, ret |-> out.ret]
  /\ UNCHANGED storeVars

\* The caller has seen the outcome (a return value or a caught error) and
\* goes on; its objects stay as the call left them.
Continue ==
  /\ call # NoCall
  /\ call' = NoCall
  /\ pre' = heap
  /\ UNCHANGED heap
  /\ UNCHANGED storeVars

(***************************************************************************)
(* Strings as sequences of characters: split, join, camelCase, extname.    *)
(***************************************************************************)
RECURSIVE Split(_, _)
\* String.prototype.split with a one-character separator.
Split(str, d) ==
  IF \A i \in 1..Len(str) : str[i] # d THEN <<str>>
  ELSE LET i == CHOOSE n \in 1..Len(str) :
                  str[n] = d /\ \A q \in 1..(n - 1) : str[q] # d
       IN <<SubSeq(str, 1, i - 1)>> \o Split(SubSeq(str, i + 1, Len(str)), d)

RECURSIVE Join(_, _)
\* Array.prototype.join
Join(segs, d) ==
  IF Len(segs) = 0 THEN <<>>
  ELSE IF Len(segs) = 1 THEN segs[1]
  ELSE segs[1] \o <<d>> \o Join(Tail(segs), d)

UpperChars == {"A", "B", "C", "M", "N", "U"}
LowerChars == {"a", "b", "c", "m", "n", "u"}
ToLower == "A" :> "a" @@ "B" :> "b" @@ "C" :> "c" @@ "M" :> "m" @@ "N" :> "n" @@ "U" :> "u"
ToUpper == "a" :> "A" @@ "b" :> "B" @@ "c" :> "C" @@ "m" :> "M" @@ "n" :> "N" @@ "u" :> "U"

RECURSIVE camelScan(_, _, _, _)
\* st: "start" before the first word, "sep" after a separator that follows a
\* word, "upper"/"lower" inside a word after a character of that case.
camelScan(str, i, out, st) ==
  IF i > Len(str) THEN out
  ELSE LET c == str[i]
       IN IF c \in UpperChars
          THEN camelScan(str, i + 1,
                         Append(out, IF st \in {"sep", "lower"} THEN c ELSE ToLower[c]),
                         "upper")
          ELSE IF c \in LowerChars
          THEN camelScan(str, i + 1,
                         Append(out, IF st = "sep" THEN ToUpper[c] ELSE c),
                         "lower")
          ELSE camelScan(str, i + 1, out, IF st = "start" THEN "start" ELSE "sep")

\* changeCase.camelCase: words are split at every character that is not a
\* letter and where a capital follows a small letter; all is lower-cased and
\* every word but the first is capitalised.
camelCase(str) == camelScan(str, 1, <<>>, "start")

(***************************************************************************)
(* lodash's _.merge, on structural values: it copies what it attaches, so  *)
(* the configuration object shares nothing with its sources.               *)
(***************************************************************************)
PropOf(v, key) == IF key \in DOMAIN v.m THEN v.m[key] ELSE Undefined

EmptyOf(kind) == [t |-> kind, s |-> "", m |-> NoProps]

\* baseMergeDeep: the value that the source's nested object or array is
\* merged into. lodash 3 keeps an array for an array and a plain object for a
\* plain object; lodash 4 keeps any object (an array too) for a plain object.
MergeBase(ver, objValue, srcValue) ==
  IF srcValue.t = "array"
  THEN IF objValue.t = "array" THEN objValue ELSE EmptyOf("array")
  ELSE IF ver = 3
       THEN IF objValue.t = "object" THEN objValue ELSE EmptyOf("object")
       ELSE IF IsObjectLike(objValue) THEN objValue ELSE EmptyOf("object")

RECURSIVE baseMerge(_, _, _)
\* baseMerge(object, source): every own property of the source is assigned,
\* nested objects and arrays recursively, into a kept or a fresh base.
baseMerge(ver, object, source) ==
  [t |-> object.t, s |-> "",
   m |-> [key \in DOMAIN object.m \cup DOMAIN source.m |->
            IF key \notin DOMAIN source.m THEN object.m[key]
            ELSE IF IsObjectLike(source.m[key])
                 THEN baseMerge(ver,
                                MergeBase(ver, PropOf(object, key), source.m[key]),
                                source.m[key])
                 ELSE source.m[key]]]

RECURSIVE lodashMerge(_, _, _, _)
\* _.merge(object, sources...): createAssigner passes over a source that is
\* null or undefined, and a number has no properties to merge.
lodashMerge(ver, object, sources, i) ==
  IF i > Len(sources) THEN object
  ELSE lodashMerge(ver,
                   IF IsObjectLike(sources[i])
                   THEN baseMerge(ver, object, sources[i])
                   ELSE object,
                   sources, i + 1)

(***************************************************************************)
(* lib/configuration.js                                                    *)
(***************************************************************************)
\* var delimiter = opts && opts.delimiter || ':'
DelimiterOf(opts) ==
  IF opts.given /\ opts.delimiter # "" THEN opts.delimiter ELSE ":"

\* As _getObject, but the segments after the first are not followed.
getObject_firstKeyOnly(object, keys) == PropOf(object, Head(keys))

RECURSIVE getObject(_, _)
getObject(object, keys) ==
  LET key == Head(keys)
  IN IF Len(keys) = 1 THEN PropOf(object, key)
     ELSE IF IsObjectLike(PropOf(object, key))
          THEN getObject(object.m[key], Tail(keys))
          ELSE Undefined

RECURSIVE buildObject(_, _)
\* _buildObject({}, value, keys)
buildObject(value, keys) ==
  IF Len(keys) = 1 THEN Obj(Head(keys) :> value)
  ELSE Obj(Head(keys) :> buildObject(value, Tail(keys)))

\* get(composedKey): an empty string is falsy.
get(cfg, d, composedKey) ==
  IF composedKey = <<>> THEN cfg ELSE getObject(cfg, Split(composedKey, d))

\* The fragment that set(composedKey, value) merges.
setFragment(d, composedKey, value) == buildObject(value, Split(composedKey, d))

\* As set, but the composed key is split at ':' whatever the delimiter is.
set_colonOnly(ver, cfg, d, composedKey, value) ==
  lodashMerge(ver, cfg, <<setFragment(":", composedKey, value)>>, 1)

\* set(composedKey, value): the configuration object afterwards.
set(ver, cfg, d, composedKey, value) ==
  lodashMerge(ver, cfg, <<setFragment(d, composedKey, value)>>, 1)

\* whitelist.indexOf(name) >= 0, and !whitelist when none is given
Listed(whitelist, name) == ~whitelist.given \/ name \in whitelist.names

RECURSIVE setAll(_, _, _, _, _)
\* The forEach loops of argv and env: set(key, value) for every pair.
setAll(ver, cfg, d, pairs, i) ==
  IF i > Len(pairs) THEN cfg
  ELSE setAll(ver, set(ver, cfg, d, pairs[i].key, pairs[i].value), d, pairs, i + 1)

\* env: the formatted composed key of an environment variable.
formattedComposedKey(d, composedKey) ==
  LET keys == Split(composedKey, d)
  IN Join([i \in 1..Len(keys) |-> camelCase(keys[i])], d)

\* env matching the names of the environment as they are, unformatted.
envPairs_rawNames(d, environment, whitelist) ==
  LET kept == SelectSeq(environment, LAMBDA e : Listed(whitelist, e.name))
  IN [i \in 1..Len(kept) |->
        [key |-> formattedComposedKey(d, kept[i].name), value |-> Scalar(kept[i].value)]]

\* env(whitelist): the (key, value) pairs that are set, in Object.keys order.
envPairs(d, environment, whitelist) ==
  LET kept == SelectSeq(environment,
                LAMBDA e : Listed(whitelist, formattedComposedKey(d, e.name)))
  IN [i \in 1..Len(kept) |->
        [key |-> formattedComposedKey(d, kept[i].name), value |-> Scalar(kept[i].value)]]

\* argv(whitelist): the (key, value) pairs that are set.
argvPairs(arguments, whitelist) ==
  LET kept == SelectSeq(arguments, LAMBDA e : Listed(whitelist, e.name))
  IN [i \in 1..Len(kept) |-> [key |-> kept[i].name, value |-> Scalar(kept[i].value)]]

\* path.extname of a file name: from its last '.', unless that is its first
\* character or there is none.
ExtName(name) ==
  LET dots == {i \in 2..Len(name) : name[i] = "."}
  IN IF dots = {} THEN <<>>
     ELSE SubSeq(name, CHOOSE i \in dots : \A q \in dots : q <= i, Len(name))

CharCode ==
  "." :> 46 @@ "1" :> 49 @@ "2" :> 50 @@ "d" :> 100 @@ "e" :> 101 @@
  "j" :> 106 @@ "l" :> 108 @@ "m" :> 109 @@ "n" :> 110 @@ "o" :> 111 @@
  "r" :> 114 @@ "s" :> 115 @@ "y" :> 121

RECURSIVE Before(_, _)
\* The default comparison of Array.prototype.sort: by code units.
Before(x, y) ==
  IF x = <<>> THEN y # <<>>
  ELSE IF y = <<>> THEN FALSE
  ELSE IF Head(x) # Head(y) THEN CharCode[Head(x)] < CharCode[Head(y)]
  ELSE Before(Tail(x), Tail(y))

RECURSIVE SortNames(_)
\* fs.readdirSync(dir).sort()
SortNames(names) ==
  IF names = {} THEN <<>>
  ELSE LET first == CHOOSE n \in names : \A o \in names \ {n} : Before(n, o)
       IN <<first>> \o SortNames(names \ {first})

NoError == "none"

\* _loadFile raising on an unknown extension whatever ignoreErrors is.
loadFile_alwaysThrows(ver, cfg, name, node, ignoreErrors) ==
  IF ExtName(name) \in {<<".", "j", "s", "o", "n">>, <<".", "y", "m", "l">>,
                         <<".", "y", "a", "m", "l">>}
  THEN IF node.parsed.ok
       THEN [cfg |-> lodashMerge(ver, cfg, <<node.parsed.val>>, 1),
             err |-> NoError, frags |-> <<node.parsed.val>>]
       ELSE [cfg |-> cfg, err |-> "SyntaxError", frags |-> <<>>]
  ELSE [cfg |-> cfg, err |-> "FILE_INVALID", frags |-> <<>>]

\* _loadFile(configFile, ignoreErrors) on a regular file: the configuration
\* afterwards, the error raised, and the fragment merged.
loadFile(ver, cfg, name, node, ignoreErrors) ==
  IF ExtName(name) \in {<<".", "j", "s", "o", "n">>, <<".", "y", "m", "l">>,
                         <<".", "y", "a", "m", "l">>}
  THEN IF node.parsed.ok
       THEN [cfg |-> lodashMerge(ver, cfg, <<node.parsed.val>>, 1),
             err |-> NoError, frags |-> <<node.parsed.val>>]
       ELSE [cfg |-> cfg, err |-> "SyntaxError", frags |-> <<>>]
  ELSE IF ~ignoreErrors
       THEN [cfg |-> cfg, err |-> "FILE_INVALID", frags |-> <<>>]
       ELSE [cfg |-> cfg, err |-> NoError, frags |-> <<>>]

RECURSIVE loadDirFrom(_, _, _, _, _, _)
\* The loop of _loadDir over files[i..]; an error ends it.
loadDirFrom(ver, cfg, dir, files, i, frags) ==
  IF i > Len(files) THEN [cfg |-> cfg, err |-> NoError, frags |-> frags]
  ELSE IF dir.entries[files[i]].kind # "file"
       THEN loadDirFrom(ver, cfg, dir, files, i + 1, frags)
       ELSE LET out == loadFile(ver, cfg, files[i], dir.entries[files[i]], TRUE)
            IN IF out.err # NoError
               THEN [cfg |-> out.cfg, err |-> out.err, frags |-> frags]
               ELSE loadDirFrom(ver, out.cfg, dir, files, i + 1, frags \o out.frags)

loadDir(ver, cfg, dir) ==
  loadDirFrom(ver, cfg, dir, SortNames(DOMAIN dir.entries), 1, <<>>)

\* file(filePath): whatever is thrown inside is rethrown as FILE_INVALID, made
\* with filePath as the path of its message.
file(ver, cfg, fs, filePath) ==
  IF filePath \notin DOMAIN fs
  THEN [cfg |-> cfg, err |-> "FILE_INVALID", errPath |-> filePath, frags |-> <<>>]
  ELSE LET out == IF fs[filePath].kind = "dir"
                  THEN loadDir(ver, cfg, fs[filePath])
                  ELSE loadFile(ver, cfg, filePath, fs[filePath], FALSE)
       IN [cfg |-> out.cfg,
           err |-> IF out.err # NoError THEN "FILE_INVALID" ELSE NoError,
           errPath |-> IF out.err # NoError THEN filePath ELSE <<>>,
           frags |-> out.frags]

(***************************************************************************)
(* The deep merge of the data model, against which the store is compared.  *)
(***************************************************************************)
RECURSIVE DeepMerge(_, _)
\* The deep merge of the data model: nested mappings are united key by key,
\* any other value of the source replaces the target's.
DeepMerge(target, source) ==
  [t |-> target.t, s |-> "",
   m |-> [key \in DOMAIN target.m \cup DOMAIN source.m |->
            IF key \notin DOMAIN source.m THEN target.m[key]
            ELSE IF PropOf(target, key).t = "object" /\ source.m[key].t = "object"
                 THEN DeepMerge(target.m[key], source.m[key])
                 ELSE source.m[key]]]

RECURSIVE LeftFold(_, _, _)
LeftFold(acc, frags, i) ==
  IF i > Len(frags) THEN acc ELSE LeftFold(DeepMerge(acc, frags[i]), frags, i + 1)

(***************************************************************************)
(* The store's surroundings and callers.                                   *)
(***************************************************************************)
MaxOps == 2

keyA == <<"a">>
keyB == <<"b">>
keyC == <<"c">>

OptsChoices ==
  { [given |-> FALSE, delimiter |-> ""],
    [given |-> TRUE, delimiter |-> ""],
    [given |-> TRUE, delimiter |-> "."] }

LodashVersions == {3, 4}

ComposedKeys ==
  { <<"a">>, <<"a", ":", "b">>, <<"a", ".", "b">>, <<"a", ":", "0">>, <<>> }

SetValues ==
  { Scalar("x"), Scalar("y"), Null,
    Arr(<<Scalar("x"), Scalar("y")>>), Arr(<<Scalar("y")>>),
    Obj(keyB :> Scalar("y")) }

\* Sources of the store's merge: two objects, null (undefined takes the same
\* branch of createAssigner) and a number.
StoreSources ==
  { Obj(keyA :> Obj(keyB :> Scalar("x"))),
    Obj(keyA :> Arr(<<Scalar("y")>>) @@ keyC :> Scalar("y")),
    Null, Scalar("7") }

StoreSourceLists == UNION {[1..n -> StoreSources] : n \in 0..MaxSources}

\* process.env, in the order of Object.keys.
ProcessEnv ==
  << [name |-> <<"A", "_", "B">>, value |-> "1"],
     [name |-> <<"M", ":", "U", "_", "C">>, value |-> "2"],
     [name |-> <<"N">>, value |-> "3"] >>

EnvWhitelists ==
  {[given |-> FALSE, names |-> {}]} \cup
  {[given |-> TRUE, names |-> w] :
     w \in SUBSET { <<"A", "_", "B">>, <<"a", "B">>,
                    <<"M", ":", "U", "_", "C">>, <<"m", ":", "u", "C">> }}

\* yargs.argv
YargsArgv ==
  << [name |-> <<"c">>, value |-> "5"],
     [name |-> <<"a", ":", "b">>, value |-> "6"] >>

ArgvWhitelists ==
  {[given |-> FALSE, names |-> {}]} \cup
  {[given |-> TRUE, names |-> w] : w \in SUBSET {<<"c">>, <<"a", ":", "b">>}}

File(parsed) == [kind |-> "file", parsed |-> parsed, entries |-> <<>>]
Dir(entries) == [kind |-> "dir", parsed |-> [ok |-> FALSE, val |-> Undefined], entries |-> entries]
Parsed(val) == [ok |-> TRUE, val |-> val]
Unparsable == [ok |-> FALSE, val |-> Undefined]

\* The files on disk, with what their parser makes of their text.
FileSystem ==
  <<"d">> :> Dir(<<"1", ".", "j", "s", "o", "n">> :>
                    File(Parsed(Obj(keyA :> Obj(keyB :> Scalar("x")) @@ keyC :> Scalar("1")))) @@
                 <<"2", ".", "y", "m", "l">> :>
                    File(Parsed(Obj(keyA :> Obj(keyB :> Scalar("y"))))) @@
                 <<"1", ".", "m", "d">> :> File(Unparsable) @@
                 <<"r">> :> File(Unparsable) @@
                 <<"s">> :> Dir(<<"3", ".", "j", "s", "o", "n">> :>
                                   File(Parsed(Obj(keyA :> Obj(keyB :> Scalar("z"))))))) @@
  <<"e">> :> Dir(<<"1", ".", "j", "s", "o", "n">> :>
                    File(Parsed(Obj(keyC :> Scalar("1")))) @@
                 <<"2", ".", "j", "s", "o", "n">> :> File(Unparsable)) @@
  <<"f">> :> Dir(<<"1", ".", "j", "s", "o", "n">> :>
                    File(Parsed(Obj(keyA :> Arr(<<Scalar("x"), Scalar("y")>>)))) @@
                 <<"2", ".", "j", "s", "o", "n">> :>
                    File(Parsed(Obj(keyA :> Arr(<<Scalar("y")>>))))) @@
  <<"1", ".", "y", "m", "l">> :> File(Parsed(Obj(keyA :> Scalar("y")))) @@
  <<"r">> :> File(Unparsable)

FilePaths == {<<"d">>, <<"e">>, <<"f">>, <<"1", ".", "y", "m", "l">>, <<"r">>, <<"m">>}

NoWhitelist == [given |-> FALSE, names |-> {}]

NoOp ==
  [op |-> "none", key |-> <<>>, val |-> Undefined, sources |-> <<>>,
   whitelist |-> NoWhitelist, ret |-> Undefined, err |-> NoError, errPath |-> <<>>]

StoreInit ==
  /\ \E opts \in OptsChoices : delimiter = DelimiterOf(opts)
  /\ lodashMajor \in LodashVersions
  /\ config = Obj(<<>>)
  /\ entry = config
  /\ expected = config
  /\ clean = TRUE
  /\ last = NoOp
  /\ nops = 0

\* What every operation does besides its own effect.
Called(cfg, frags, err) ==
  /\ last = NoOp
  /\ nops < MaxOps
  /\ nops' = nops + 1
  /\ config' = cfg
  /\ entry' = config
  /\ expected' = LeftFold(expected, frags, 1)
  /\ clean' = (clean /\ err = NoError)
  /\ UNCHANGED <<delimiter, lodashMajor>>
  /\ UNCHANGED engineVars

Get ==
  \E composedKey \in ComposedKeys :
    /\ Called(config, <<>>, NoError)
    /\ last' = [NoOp EXCEPT !.op = "get", !.key = composedKey,
                            !.ret = get(config, delimiter, composedKey)]

Set ==
  \E composedKey \in ComposedKeys, value \in SetValues :
    /\ Called(set(lodashMajor, config, delimiter, composedKey, value),
              <<setFragment(delimiter, composedKey, value)>>, NoError)
    /\ last' = [NoOp EXCEPT !.op = "set", !.key = composedKey, !.val = value]

Merge ==
  \E sources \in StoreSourceLists :
    /\ Called(lodashMerge(lodashMajor, config, sources, 1),
              SelectSeq(sources, IsObjectLike), NoError)
    /\ last' = [NoOp EXCEPT !.op = "merge", !.sources = sources]

Argv ==
  \E whitelist \in ArgvWhitelists :
    LET pairs == argvPairs(YargsArgv, whitelist)
    IN /\ Called(setAll(lodashMajor, config, delimiter, pairs, 1),
                 [i \in 1..Len(pairs) |->
                    setFragment(delimiter, pairs[i].key, pairs[i].value)],
                 NoError)
       /\ last' = [NoOp EXCEPT !.op = "argv", !.whitelist = whitelist]

Env ==
  \E whitelist \in EnvWhitelists :
    LET pairs == envPairs(delimiter, ProcessEnv, whitelist)
    IN /\ Called(setAll(lodashMajor, config, delimiter, pairs, 1),
                 [i \in 1..Len(pairs) |->
                    setFragment(delimiter, pairs[i].key, pairs[i].value)],
                 NoError)
       /\ last' = [NoOp EXCEPT !.op = "env", !.whitelist = whitelist]

FileOp ==
  \E filePath \in FilePaths :
    LET out == file(lodashMajor, config, FileSystem, filePath)
    IN /\ Called(out.cfg, out.frags, out.err)
       /\ last' = [NoOp EXCEPT !.op = "file", !.key = filePath, !.err = out.err,
                               !.errPath = out.errPath]

\* The caller has seen the outcome and goes on.
StoreContinue ==
  /\ last # NoOp
  /\ last' = NoOp
  /\ entry' = config
  /\ UNCHANGED <<delimiter, lodashMajor, config, expected, clean, nops>>
  /\ UNCHANGED engineVars

EngineIdle ==
  /\ heap = <<>>
  /\ pre = <<>>
  /\ call = NoCall

StoreIdle ==
  /\ delimiter = ":"
  /\ lodashMajor = 3
  /\ config = Obj(<<>>)
  /\ entry = config
  /\ expected = config
  /\ clean = TRUE
  /\ last = NoOp
  /\ nops = 0

InitEngine == EngineInit /\ StoreIdle
NextEngine == CallMerge \/ Continue
SpecEngine == InitEngine /\ [][NextEngine]_vars

Init == StoreInit /\ EngineIdle
Next == Get \/ Set \/ Merge \/ Argv \/ Env \/ FileOp \/ StoreContinue
Spec == Init /\ [][Next]_vars

(***************************************************************************)
(* Claims about the deep-merge engine (SpecEngine).                        *)
(***************************************************************************)
\* null, undefined, or a value whose typeof is not 'object'
NotAnObject(v) == v.t \in {"null", "undefined", "scalar"}

\* The last call was merge(a, b) with objects a and b, and it returned.
PairCall ==
  /\ call # NoCall
  /\ call.err = "none"
  /\ Len(call.sources) = 1

IsMappingRef(h, v) == v.t = "ref" /\ h[v.r].t = "object"
IsArrayRef(h, v) == v.t = "ref" /\ h[v.r].t = "array"

\* C2: for non-null objects a and b, merge(a, b) returns a itself; for every
\* own key of b, if a[key] and b[key] were both nested objects then a[key] is
\* the same object as before and its keys are the union of its previous keys
\* and b[key]'s, otherwise (absent, or either side a scalar, an array or
\* null) a[key] is b[key]; every other key of a keeps its value.
C2_MergePair ==
  PairCall =>
    LET a == call.target.r
        b == call.sources[1].r
    IN /\ call.ret = call.target
       /\ \A key \in DOMAIN pre[b].m :
            LET av == Prop(pre, a, key)
                bv == pre[b].m[key]
            IN IF IsMappingRef(pre, av) /\ IsMappingRef(pre, bv)
               THEN /\ heap[a].m[key] = av
                    /\ DOMAIN heap[av.r].m =
                         DOMAIN pre[av.r].m \cup DOMAIN pre[bv.r].m
               ELSE heap[a].m[key] = bv
       /\ \A key \in DOMAIN pre[a].m \ DOMAIN pre[b].m :
            heap[a].m[key] = pre[a].m[key]

\* C3: arrays are never merged element by element: when the target holds an
\* array at a key and the source supplies an array or any non-mapping value
\* there, the target's value at that key is afterwards exactly the source's
\* value.
C3_ArraysOverwritten ==
  PairCall =>
    LET a == call.target.r
        b == call.sources[1].r
    IN \A key \in DOMAIN pre[b].m :
         (IsArrayRef(pre, Prop(pre, a, key)) /\ ~IsMappingRef(pre, pre[b].m[key]))
           => TreeOf(heap, heap[a].m[key]) = TreeOf(pre, pre[b].m[key])

\* C4: no call changes a source object: every source passed to merge is
\* structurally equal after the call to what it was when the call was
\* entered.
C4_SourcesUnchanged ==
  call # NoCall =>
    \A i \in 1..Len(call.sources) :
      IsObjectRef(call.sources[i]) =>
        TreeOf(heap, call.sources[i]) = TreeOf(pre, call.sources[i])

\* C5: per-call atomicity: when merge ends by raising an error, the target
\* (and every other object) is exactly as it was when the call was entered.
C5_Atomicity ==
  (call # NoCall /\ call.err # "none") => heap = pre

\* C7: merge fails with MERGE_INVALID exactly when the target or at least
\* one source, at any position, is null, undefined or not an object.
C7_InvalidArgument ==
  call # NoCall =>
    ((call.err = "MERGE_INVALID") <=>
       (NotAnObject(call.target)
          \/ \E i \in 1..Len(call.sources) : NotAnObject(call.sources[i])))

\* A call with a valid target and first source and an invalid later source
\* has failed.
C7_Witness ==
  /\ call # NoCall
  /\ call.err = "MERGE_INVALID"
  /\ Len(call.sources) = 2
  /\ ~NotAnObject(call.target)
  /\ ~NotAnObject(call.sources[1])
  /\ NotAnObject(call.sources[2])

(***************************************************************************)
(* Claims about the Configuration store (Spec).                            *)
(***************************************************************************)
\* A value that the data model never merges: a scalar, null or a sequence.
IsLeaf(v) == v.t \in {"scalar", "null", "array"}

RECURSIVE NodeAt(_, _)
\* The node addressed by a path of segments: undefined as soon as a segment
\* is missing or the node is no object while segments remain.
NodeAt(node, segments) ==
  IF segments = <<>> THEN node
  ELSE IF ~IsObjectLike(node) \/ Head(segments) \notin DOMAIN node.m THEN Undefined
  ELSE NodeAt(node.m[Head(segments)], Tail(segments))

\* C1: after any sequence of successful set, merge, env, argv and file calls
\* the configuration object equals the left fold, in call order, of the deep
\* merge of the fragments of those calls, and a later call's leaf value is the
\* one present at its path.
C1_LeftFold ==
  clean =>
    /\ config = expected
    /\ (last.op = "set" /\ IsLeaf(last.val))
         => NodeAt(config, Split(last.key, delimiter)) = last.val

\* C6: the store's merge fails with MERGE_INVALID whenever one of its sources
\* is null, undefined or not an object.
C6_StoreMergeInvalid ==
  (last.op = "merge" /\ \E i \in 1..Len(last.sources) : ~IsObjectLike(last.sources[i]))
    => last.err = "MERGE_INVALID"

IsScalarOrNull(v) == v.t \in {"scalar", "null"}

\* C8 (as stated): for any composed key K and scalar v, in any state of the
\* store, set(K, v) followed immediately by get(K) returns v.
C8_RoundTrip ==
  (last.op = "set" /\ IsScalarOrNull(last.val))
    => get(config, delimiter, last.key) = last.val

\* C8 (amended): for any non-empty composed key K and scalar v, in any state
\* of the store, set(K, v) followed immediately by get(K) returns v.
C8_RoundTripNonEmptyKey ==
  (last.op = "set" /\ IsScalarOrNull(last.val) /\ last.key # <<>>)
    => get(config, delimiter, last.key) = last.val

\* set('a:b', v) with a scalar v was called while 'a' held a scalar.
C8_Witness ==
  /\ last.op = "set"
  /\ last.key = <<"a", ":", "b">>
  /\ delimiter = ":"
  /\ last.val.t = "scalar"
  /\ PropOf(entry, keyA).t = "scalar"
  /\ get(config, delimiter, last.key) = last.val

\* C9 (as stated): for every string key, get(key) never raises, returns the
\* node addressed by the key's segments (undefined when a segment is missing
\* or a node on the way is no object), and leaves the configuration as it was.
C9_Get ==
  last.op = "get" =>
    /\ last.err = NoError
    /\ last.ret = NodeAt(entry, Split(last.key, delimiter))
    /\ config = entry

\* C9 (amended): the same for every non-empty string key; for the empty
\* string get returns the whole configuration object.
C9_GetNonEmptyKey ==
  last.op = "get" =>
    /\ last.err = NoError
    /\ last.ret = IF last.key = <<>> THEN entry
                  ELSE NodeAt(entry, Split(last.key, delimiter))
    /\ config = entry

\* get('a:b') was called while 'a' held a scalar, and returned undefined.
C9_Witness ==
  /\ last.op = "get"
  /\ last.key = <<"a", ":", "b">>
  /\ delimiter = ":"
  /\ PropOf(entry, keyA).t = "scalar"
  /\ last.ret = Undefined

EnvNames == {ProcessEnv[i].name : i \in 1..Len(ProcessEnv)}

\* C10: env(whitelist) with a whitelist of variable names as they appear in
\* the environment ingests each listed variable at its camelCased composed
\* key with its raw value, and no variable that is not listed.
C10_EnvRawNames ==
  (last.op = "env" /\ last.whitelist.given /\ last.whitelist.names \subseteq EnvNames)
    => \A i \in 1..Len(ProcessEnv) :
         LET path == Split(formattedComposedKey(delimiter, ProcessEnv[i].name), delimiter)
         IN IF ProcessEnv[i].name \in last.whitelist.names
            THEN NodeAt(config, path) = Scalar(ProcessEnv[i].value)
            ELSE NodeAt(config, path) = NodeAt(entry, path)

\* The formatted name of a variable: each delimiter-separated segment
\* camelCased, the segments rejoined with the delimiter.
FormattedName(name) ==
  Join([n \in 1..Len(Split(name, delimiter)) |-> camelCase(Split(name, delimiter)[n])],
       delimiter)

RECURSIVE EnvIngested(_, _, _)
\* The configuration after set(formatted name, raw value) for each of the
\* variables i.. of the environment whose formatted name the whitelist lists.
EnvIngested(cfg, whitelist, i) ==
  IF i > Len(ProcessEnv) THEN cfg
  ELSE IF whitelist.given /\ FormattedName(ProcessEnv[i].name) \notin whitelist.names
       THEN EnvIngested(cfg, whitelist, i + 1)
       ELSE EnvIngested(set(lodashMajor, cfg, delimiter, FormattedName(ProcessEnv[i].name),
                            Scalar(ProcessEnv[i].value)),
                        whitelist, i + 1)

Recognised(dir) ==
  { n \in DOMAIN dir.entries :
      /\ dir.entries[n].kind = "file"
      /\ ExtName(n) \in {<<".", "j", "s", "o", "n">>, <<".", "y", "m", "l">>,
                         <<".", "y", "a", "m", "l">>}
      /\ dir.entries[n].parsed.ok }

RECURSIVE LeafPaths(_)
\* The paths of a fragment that end at a leaf.
LeafPaths(v) ==
  IF v.t = "object"
  THEN UNION { { <<key>> \o p : p \in LeafPaths(v.m[key]) } : key \in DOMAIN v.m }
  ELSE {<<>>}

\* A fragment says something at the path or above it.
Touches(v, path) ==
  \E n \in 1..Len(path) : NodeAt(v, SubSeq(path, 1, n)) # Undefined

\* The file system without the subdirectories of its directories.
Flat(fs) ==
  [q \in DOMAIN fs |->
     IF fs[q].kind # "dir" THEN fs[q]
     ELSE Dir([n \in {e \in DOMAIN fs[q].entries : fs[q].entries[e].kind # "dir"} |->
                 fs[q].entries[n]])]

\* The conflicts of a directory's recognised files: an earlier file, a later
\* one and a leaf of the later one at a key of the earlier one that no file
\* sorting after the later one says anything about.
LeafConflicts(dir) ==
  { c \in [first : Recognised(dir), later : Recognised(dir),
           path : UNION {LeafPaths(dir.entries[n].parsed.val) : n \in Recognised(dir)}] :
      /\ Before(c.first, c.later)
      /\ c.path \in LeafPaths(dir.entries[c.later].parsed.val)
      /\ NodeAt(dir.entries[c.first].parsed.val, c.path) # Undefined
      /\ \A n \in Recognised(dir) :
           Before(c.later, n) => ~Touches(dir.entries[n].parsed.val, c.path) }

\* C12: file(dirPath) merges the directory's immediate regular files in the
\* lexicographic order of their names, each wholly before the next: where two
\* recognised files conflict at a leaf key, the value of the file whose name
\* sorts later is the one present afterwards; and the outcome is the one the
\* directory would give without its subdirectories.
C12_DirectoryOrder ==
  (last.op = "file" /\ last.err = NoError /\ last.key \in DOMAIN FileSystem
     /\ FileSystem[last.key].kind = "dir")
    => /\ \A c \in LeafConflicts(FileSystem[last.key]) :
            NodeAt(config, c.path)
              = NodeAt(FileSystem[last.key].entries[c.later].parsed.val, c.path)
       /\ config = file(lodashMajor, entry, Flat(FileSystem), last.key).cfg

\* The same for the leaves that are scalars or null.
C12_ScalarLeaves ==
  (last.op = "file" /\ last.err = NoError /\ last.key \in DOMAIN FileSystem
     /\ FileSystem[last.key].kind = "dir")
    => /\ \A c \in LeafConflicts(FileSystem[last.key]) :
            IsScalarOrNull(NodeAt(FileSystem[last.key].entries[c.later].parsed.val, c.path))
              => NodeAt(config, c.path)
                   = NodeAt(FileSystem[last.key].entries[c.later].parsed.val, c.path)
       /\ config = file(lodashMajor, entry, Flat(FileSystem), last.key).cfg

\* The extension of a name is none of .json, .yml and .yaml.
UnknownExtension(name) ==
  ExtName(name) \notin {<<".", "j", "s", "o", "n">>, <<".", "y", "m", "l">>,
                        <<".", "y", "a", "m", "l">>}

\* The file system without the regular files of its directories that have an
\* unknown extension.
WithoutUnknown(fs) ==
  [q \in DOMAIN fs |->
     IF fs[q].kind # "dir" THEN fs[q]
     ELSE Dir([n \in {e \in DOMAIN fs[q].entries :
                        ~(fs[q].entries[e].kind = "file" /\ UnknownExtension(e))} |->
                 fs[q].entries[n]])]

\* C13: file(path) fails with FILE_INVALID carrying the path when the path is
\* missing or is a file whose extension is none of .json, .yml and .yaml;
\* file(dirPath) gives the outcome the directory would give without its
\* entries of unknown extension, and succeeds when every other regular file
\* of the directory parses.
C13_ExtensionAsymmetry ==
  last.op = "file" =>
    /\ (last.key \notin DOMAIN FileSystem
          \/ (FileSystem[last.key].kind = "file" /\ UnknownExtension(last.key)))
         => (last.err = "FILE_INVALID" /\ last.errPath = last.key)
    /\ (last.key \in DOMAIN FileSystem /\ FileSystem[last.key].kind = "dir")
         => LET dir == FileSystem[last.key]
                rest == file(lodashMajor, entry, WithoutUnknown(FileSystem), last.key)
            IN /\ config = rest.cfg
               /\ last.err = rest.err
               /\ (\A n \in DOMAIN dir.entries :
                      (dir.entries[n].kind = "file" /\ ~UnknownExtension(n))
                        => dir.entries[n].parsed.ok)
                    => /\ last.err = NoError
                       /\ \A n \in Recognised(dir) :
                            \A q \in LeafPaths(dir.entries[n].parsed.val) :
                              NodeAt(config, q) # Undefined

\* file('d') returned: 1.md, between 1.json and 2.yml, and r were passed
\* over, and the values of 1.json and 2.yml are in the configuration.
C13_Witness ==
  /\ last.op = "file"
  /\ last.key = <<"d">>
  /\ last.err = NoError
  /\ \E n \in DOMAIN FileSystem[<<"d">>].entries :
       FileSystem[<<"d">>].entries[n].kind = "file" /\ UnknownExtension(n)
  /\ NodeAt(config, <<keyA, keyB>>) = Scalar("y")
  /\ NodeAt(config, <<keyC>>) = Scalar("1")

\* file('r'), a file without extension, and file('m'), a missing path,
\* failed with FILE_INVALID for that path.
C13_WitnessFailure ==
  /\ last.op = "file"
  /\ last.key \in {<<"r">>, <<"m">>}
  /\ last.err = "FILE_INVALID"
  /\ last.errPath = last.key

(***************************************************************************)
(* Associativity of the deep-merge engine (SpecEngine).                    *)
(***************************************************************************)
\* merge(merge(a, b), c), as a structural value, from the heap h.
MergedLeft(h, a, b, c) ==
  LET ab == merge(h, a, <<b>>)
      abc == merge(ab.h, ab.ret, <<c>>)
  IN TreeOf(abc.h, abc.ret)

\* merge(a, merge(b, c)), as a structural value, from the heap h.
MergedRight(h, a, b, c) ==
  LET bc == merge(h, b, <<c>>)
      abc == merge(bc.h, a, <<bc.ret>>)
  IN TreeOf(abc.h, abc.ret)

\* The last call was merge(a, b, c) with objects a, b and c, and it returned.
TripleCall ==
  /\ call # NoCall
  /\ call.err = "none"
  /\ Len(call.sources) = 2
  /\ \A i \in 1..2 : IsObjectRef(call.sources[i])

RECURSIVE NodePaths(_)
\* The paths of all the nodes of a value.
NodePaths(v) ==
  {<<>>} \cup
  (IF IsObjectLike(v)
   THEN UNION { { <<key>> \o p : p \in NodePaths(v.m[key]) } : key \in DOMAIN v.m }
   ELSE {})

\* At some path a and c hold an object or an array and b a value that is
\* neither.
LeafBetweenObjects(a, b, c) ==
  \E p \in NodePaths(b) :
    /\ ~IsObjectLike(NodeAt(b, p))
    /\ IsObjectLike(NodeAt(a, p))
    /\ IsObjectLike(NodeAt(c, p))

\* C14 (as stated): for all objects a, b and c, merge(merge(a, b), c) and
\* merge(a, merge(b, c)) are structurally equal.
C14_Associative ==
  TripleCall =>
    /\ TreeOf(heap, call.ret) = MergedLeft(pre, call.target, call.sources[1], call.sources[2])
    /\ MergedLeft(pre, call.target, call.sources[1], call.sources[2])
         = MergedRight(pre, call.target, call.sources[1], call.sources[2])

\* C14 (amended): the same for all objects a, b and c such that at no path a
\* and c hold an object or an array while b holds a value that is neither.
C14_AssociativeNoLeafBetween ==
  (TripleCall
     /\ ~LeafBetweenObjects(TreeOf(pre, call.target), TreeOf(pre, call.sources[1]),
                            TreeOf(pre, call.sources[2])))
    => /\ TreeOf(heap, call.ret)
            = MergedLeft(pre, call.target, call.sources[1], call.sources[2])
       /\ MergedLeft(pre, call.target, call.sources[1], call.sources[2])
            = MergedRight(pre, call.target, call.sources[1], call.sources[2])

\* merge(T, S1, S2) returned with T = {k: {j: 'x'}} before the call, one
\* source {k: {k: 'y'}} and the other {k: {j: {j: 'y'}}, j: 'y'}: T.k holds
\* the keys of both.
C14_Witness ==
  /\ TripleCall
  /\ call.sources[1] # call.sources[2]
  /\ TreeOf(pre, call.target) = Obj(k :> Obj(j :> Scalar("x")))
  /\ TreeOf(pre, call.sources[1]) = Obj(k :> Obj(k :> Scalar("y")))
  /\ TreeOf(pre, call.sources[2])
       = Obj(k :> Obj(j :> Obj(j :> Scalar("y"))) @@ j :> Scalar("y"))
  /\ TreeOf(heap, call.ret)
       = Obj(k :> Obj(j :> Obj(j :> Scalar("y")) @@ k :> Scalar("y")) @@ j :> Scalar("y"))
  /\ MergedRight(pre, call.target, call.sources[1], call.sources[2])
       = TreeOf(heap, call.ret)

====
